---- MODULE Spec2Model ----
(***************************************************************************)
(* The two plotting scripts of babble-ssb-simulator.                       *)
(*                                                                         *)
(*   src/visualize-results.py  reads the CSV files of the results          *)
(*       directory, filters, groups and sorts the rows and writes one      *)
(*       image per chart into the output directory;                        *)
(*   src/data/index.py         draws one grouped bar chart from literal    *)
(*       arrays.                                                           *)
(*                                                                         *)
(* A table is a record [cols, rows]: the optional columns its header       *)
(* carries and its rows in file order.  The charting library is modelled   *)
(* by what is handed to it: a figure is the list of series (and the pivot) *)
(* drawn on it, an output file is the name handed to savefig.  Library     *)
(* calls that raise on the data they get (iloc[0] on an empty frame, a     *)
(* subplot grid with zero rows, a missing column) end the call with the    *)
(* exception, as in Python.                                                *)
(***************************************************************************)
EXTENDS Integers, Sequences, FiniteSets, TLC

\* The largest number of data rows in the results directory, all files together.
MaxRows == 2

\* Values the CSV cells are drawn from.
Profiles == {"lan", "wan"}
NodeNums == {4, 8}
ByzantinePercentages == {0, 33}
\* The measurement of the k-th row of the directory: every trial measures its
\* own time, so no two rows carry the same meanTime.
MeanTime(k) == 10 * (2 * k - 1)
StdTime(k) == k
\* A failure cell holds True, False, or nothing (read by pandas as NaN).
FailureCells == {"True", "False", "NaN"}
\* The value of a field whose column the file does not have.
NoColumn == "none"

\* Python's order on the strings that occur as profile names.
ProfilesAscending == <<"lan", "wan">>

VARIABLES
    listing,    \* os.listdir(RESULTS_DIR): the entries of the results directory, in the order the OS lists them
    contents,   \* the table held by each entry of the results directory
    output,     \* the files of OUTPUT_DIR
    figures,    \* what was drawn on each figure, by the name it is (to be) saved under
    calls,      \* the chart functions called so far in this process, each with how it ended
    raised,     \* TRUE once an exception has left a chart function: the process is over
    finished,   \* TRUE once main() has printed its last line
    run,        \* 1 in the first run of the script, 2 in the second
    previous,   \* the figures of the first run, kept for comparison with the second
    bars,       \* index.py: the rectangles drawn so far
    errorbars,  \* index.py: the error bars drawn so far
    group       \* index.py: the position of the bar loop

vars == <<listing, contents, output, figures, calls, raised, finished, run, previous,
          bars, errorbars, group>>

----------------------------------------------------------------------------
(* Sequences *)

Range(s) == {s[i] : i \in DOMAIN s}

Perms(S) == {p \in [1..Cardinality(S) -> S] : \A i, j \in DOMAIN p : p[i] = p[j] => i = j}

RECURSIVE SumSeq(_)
SumSeq(s) == IF s = <<>> THEN 0 ELSE s[1] + SumSeq(Tail(s))

RECURSIVE Flatten(_)
Flatten(ss) == IF ss = <<>> THEN <<>> ELSE ss[1] \o Flatten(Tail(ss))

RECURSIVE Gcd(_, _)
Gcd(a, b) == IF b = 0 THEN a ELSE Gcd(b, a % b)

Column(rows, name) == [i \in DOMAIN rows |-> rows[i][name]]

\* Series.unique(): the distinct values in order of first appearance.
RECURSIVE unique(_)
unique(s) ==
    IF s = <<>> THEN <<>>
    ELSE LET front == unique(SubSeq(s, 1, Len(s) - 1))
             last == s[Len(s)]
         IN IF last \in Range(front) THEN front ELSE Append(front, last)

\* sorted() on numbers.
RECURSIVE sorted(_)
sorted(s) ==
    IF s = <<>> THEN <<>>
    ELSE LET front == sorted(SubSeq(s, 1, Len(s) - 1))
             last == s[Len(s)]
             k == Cardinality({i \in DOMAIN front : front[i] <= last})
         IN SubSeq(front, 1, k) \o <<last>> \o SubSeq(front, k + 1, Len(front))

\* sorted() on profile names: Python compares the strings.
StrRank(p) == CHOOSE i \in DOMAIN ProfilesAscending : ProfilesAscending[i] = p
sorted_str(s) ==
    LET ranks == sorted([i \in DOMAIN s |-> StrRank(s[i])])
    IN [i \in DOMAIN ranks |-> ProfilesAscending[ranks[i]]]

\* DataFrame.sort_values('nodeNum'): ascending; rows with equal nodeNum keep
\* their order (numpy sorts short arrays by insertion).
\* The rows left in the order of the table.
sort_values_left_unsorted(rows) == rows

RECURSIVE sort_values(_)
sort_values(rows) ==
    IF rows = <<>> THEN <<>>
    ELSE LET front == sort_values(SubSeq(rows, 1, Len(rows) - 1))
             last == rows[Len(rows)]
             k == Cardinality({i \in DOMAIN front : front[i].nodeNum <= last.nodeNum})
         IN SubSeq(front, 1, k) \o <<last>> \o SubSeq(front, k + 1, Len(front))

----------------------------------------------------------------------------
(* The results directory *)

RESULTS_DIR == "results"
OUTPUT_DIR == "visualizations"

AllExperiments == [stem |-> "all-experiments", ext |-> ".csv"]
ProfileFiles == {[stem |-> p, ext |-> ".csv"] : p \in Profiles}
FileNames == {AllExperiments} \cup ProfileFiles
\* A file of the results directory that is no CSV file.
OtherFile == [stem |-> "notes", ext |-> ".txt"]
\* A CSV file beside the aggregate file whose name holds 'all-experiments'.
BackupFile == [stem |-> "all-experiments-old", ext |-> ".csv"]
\* 'all-experiments' in f, over the file names of the directory.
in_name(f) == f.stem \in {AllExperiments.stem, BackupFile.stem}

FullName(f) == f.stem \o f.ext

\* The condition a trial ran under and whether it failed.
Trial == [networkProfile : Profiles, nodeNum : NodeNums,
          byzantinePercentage : ByzantinePercentages, failure : FailureCells]

\* The row of the k-th trial.
Row(t, k) == t @@ [meanTime |-> MeanTime(k), stdTime |-> StdTime(k)]

\* A row as it is read from a file with the optional columns cols.
ReadRow(r, cols) ==
    [r EXCEPT !.networkProfile = IF "networkProfile" \in cols THEN @ ELSE NoColumn,
              !.failure = IF "failure" \in cols THEN @ ELSE NoColumn]

EmptyTable == [cols |-> {}, rows |-> <<>>]

\* No script has done anything yet.
NothingDone ==
    /\ output = {}
    /\ figures = <<>>
    /\ calls = <<>>
    /\ raised = FALSE
    /\ finished = FALSE
    /\ run = 1
    /\ previous = <<>>
    /\ bars = {}
    /\ errorbars = {}
    /\ group = 0

\* The state before the script starts: at most MaxRows rows spread over the
\* aggregate file and the per-profile files; a CSV file that is present holds
\* at least one row; where further rows would fit, the directory may hold
\* files no function reads: one that is no CSV file, one whose name holds
\* 'all-experiments'.  All files have or lack the failure column and the
\* networkMean/networkStd columns together; the aggregate file always has the
\* networkProfile column, the per-profile files have it or not.
Init ==
    /\ \E n \in 0..MaxRows, hasFailure \in BOOLEAN, hasMean \in BOOLEAN, hasProfile \in BOOLEAN,
          other \in SUBSET {OtherFile, BackupFile} :
       \E trials \in [1..n -> Trial], place \in [1..n -> FileNames] :
          LET rows == [k \in 1..n |-> Row(trials[k], k)]
              present == Range(place)
              cols(f) == (IF hasFailure THEN {"failure"} ELSE {})
                         \cup (IF hasMean THEN {"networkMean", "networkStd"} ELSE {})
                         \cup (IF f = AllExperiments \/ hasProfile THEN {"networkProfile"} ELSE {})
              at(f) == SelectSeq([i \in 1..n |-> i], LAMBDA i : place[i] = f)
          IN /\ n + Cardinality(other) <= MaxRows
             /\ listing \in Perms(present \cup other)
             /\ contents = [f \in present |->
                              [cols |-> cols(f),
                               rows |-> [j \in DOMAIN at(f) |-> ReadRow(rows[at(f)[j]], cols(f))]]]
    /\ NothingDone

----------------------------------------------------------------------------
(* load_data and the failure filter *)

os_path_exists(f) == f \in Range(listing)

\* No check that the file exists: a missing file reads as an empty table.
load_data_without_check(f) ==
    [is_none |-> FALSE, data |-> IF os_path_exists(f) THEN contents[f] ELSE EmptyTable,
     printed |-> <<>>]

\* load_data(filename): None and a warning when the file is missing, the
\* parsed table otherwise.
load_data(f) ==
    IF ~os_path_exists(f)
    THEN [is_none |-> TRUE, data |-> EmptyTable,
          printed |-> <<"Warning: File not found: " \o RESULTS_DIR \o "/" \o FullName(f)>>]
    ELSE [is_none |-> FALSE, data |-> contents[f], printed |-> <<>>]

\* A missing cell taken as True: the row counts as failed.
fillna_as_failed(cell) == IF cell = "NaN" THEN "True" ELSE cell

\* Series.fillna(False): a missing cell becomes False (and the column boolean
\* again, as pandas 1.x and 2.x downcast it).
fillna(cell) == IF cell = "NaN" THEN "False" ELSE cell

\* ~ on a boolean
invert(cell) == IF cell = "True" THEN "False" ELSE "True"

\* The filter left out: every row is kept.
filter_failed_kept_all(data) == data

\* if 'failure' in data.columns: data = data[~data['failure'].fillna(False)]
filter_failed(data) ==
    IF "failure" \in data.cols
    THEN [data EXCEPT !.rows = SelectSeq(@, LAMBDA r : invert(fillna(r.failure)) = "True")]
    ELSE data

Reverse(s) == [i \in DOMAIN s |-> s[Len(s) + 1 - i]]

\* The directory listed in another order in the second run.
data_files_reordered ==
    LET files == SelectSeq(listing, LAMBDA f : f.ext = ".csv" /\ ~in_name(f))
    IN IF run = 1 THEN files ELSE Reverse(files)

\* [f for f in os.listdir(RESULTS_DIR) if f.endswith('.csv') and 'all-experiments' not in f]
data_files ==
    SelectSeq(listing, LAMBDA f : f.ext = ".csv" /\ ~in_name(f))

\* The guard left out: the function goes on without data.
no_experiment_data_unguarded(load) == FALSE

\* Neither the aggregate file nor a per-profile file: the two functions that
\* can use either print "No experiment data found!" and return.
no_experiment_data(load) == load.is_none /\ data_files = <<>>

----------------------------------------------------------------------------
(* Figures *)

NoPivot == [index |-> <<>>, columns |-> <<>>, groups |-> <<>>, values |-> <<>>]

\* What a chart function built: the rows it aggregated, its key lists, the
\* series it drew in drawing order, the pivot it drew, the cells it labelled
\* 'No Data'.
Figure(fn, rows, profiles, percentages, series, pivot, no_data) ==
    [fn |-> fn, rows |-> rows, network_profiles |-> profiles,
     byzantine_percentages |-> percentages, series |-> series, pivot |-> pivot,
     no_data |-> no_data]

\* The loop over byzantine_percentages inside one profile: each percentage
\* with rows gives one series of its rows sorted by nodeNum; a percentage
\* without rows is skipped.
series_per_percentage(profile, profile_rows, byzantine_percentages) ==
    Flatten([j \in DOMAIN byzantine_percentages |->
        LET percentage == byzantine_percentages[j]
            percentage_data ==
                sort_values(SelectSeq(profile_rows,
                                      LAMBDA r : r.byzantinePercentage = percentage))
        IN IF Len(percentage_data) = 0 THEN <<>>
           ELSE <<[profile |-> profile, percentage |-> percentage,
                   points |-> percentage_data]>>])

\* The loop over network_profiles around it.
series_per_profile(rows, network_profiles, byzantine_percentages) ==
    Flatten([i \in DOMAIN network_profiles |->
        series_per_percentage(
            network_profiles[i],
            SelectSeq(rows, LAMBDA r : r.networkProfile = network_profiles[i]),
            byzantine_percentages)])

\* What a call of a chart function comes to.
Outcome(outcome, error, printed, wrote, figs, loads, all_data) ==
    [outcome |-> outcome, error |-> error, printed |-> printed, wrote |-> wrote,
     figs |-> figs, loads |-> loads, all_data |-> all_data]

NoData == "No experiment data found!"

----------------------------------------------------------------------------
(* plot_byzantine_impact and create_byzantine_impact_plots *)

\* One plot: filter, one series per Byzantine percentage, save.  The title
\* reads data['networkMean'].iloc[0], which raises IndexError on a frame
\* without rows.
plot_byzantine_impact(data0, output_filename) ==
    LET data == filter_failed(data0)
        byzantine_percentages ==
            sorted(unique(Column(data.rows, "byzantinePercentage")))
        fig == Figure("plot_byzantine_impact", data.rows, <<>>, byzantine_percentages,
                      series_per_percentage(NoColumn, data.rows, byzantine_percentages),
                      NoPivot, {})
    IN IF "networkMean" \in data.cols /\ Len(data.rows) = 0
       THEN [outcome |-> "raised", error |-> "IndexError", printed |-> <<>>,
             wrote |-> {}, figs |-> output_filename :> fig]
       ELSE [outcome |-> "completed", error |-> "",
             printed |-> <<"  Plot saved: " \o output_filename>>,
             wrote |-> {output_filename}, figs |-> output_filename :> fig]

\* The plots of a loop, one after the other, up to the first that raises.
RECURSIVE plot_each(_)
plot_each(jobs) ==
    IF jobs = <<>>
    THEN [outcome |-> "completed", error |-> "", printed |-> <<>>, wrote |-> {},
          figs |-> <<>>]
    ELSE LET first == plot_byzantine_impact(jobs[1].data, jobs[1].name)
             rest == plot_each(Tail(jobs))
         IN IF first.outcome = "raised" THEN first
            ELSE [outcome |-> rest.outcome, error |-> rest.error,
                  printed |-> first.printed \o rest.printed,
                  wrote |-> first.wrote \cup rest.wrote,
                  figs |-> rest.figs @@ first.figs]

create_byzantine_impact_plots ==
    LET start == <<"Generating Byzantine impact plots for each network profile...">>
        done == <<"Byzantine impact plots generated">>
    IN IF data_files = <<>>
       THEN LET load == load_data(AllExperiments)
                all_data == load.data
                network_profiles == unique(Column(all_data.rows, "networkProfile"))
                plots == plot_each([i \in DOMAIN network_profiles |->
                    [data |-> [all_data EXCEPT !.rows =
                                 SelectSeq(@, LAMBDA r : r.networkProfile = network_profiles[i])],
                     name |-> network_profiles[i] \o "_byzantine_impact.png"]])
            IN IF no_experiment_data(load)
               THEN Outcome("returned", "", start \o load.printed \o <<NoData>>, {}, <<>>,
                            <<[file |-> AllExperiments, found |-> ~load.is_none]>>, EmptyTable)
               ELSE Outcome(plots.outcome, plots.error,
                            start \o plots.printed
                              \o (IF plots.outcome = "raised" THEN <<>> ELSE done),
                            plots.wrote, plots.figs,
                            <<[file |-> AllExperiments, found |-> ~load.is_none]>>, all_data)
       ELSE LET loads == [i \in DOMAIN data_files |-> load_data(data_files[i])]
                found == SelectSeq([i \in DOMAIN data_files |-> i],
                                   LAMBDA i : ~loads[i].is_none)
                plots == plot_each([k \in DOMAIN found |->
                    [data |-> loads[found[k]].data,
                     name |-> data_files[found[k]].stem \o "_byzantine_impact.png"]])
            IN Outcome(plots.outcome, plots.error,
                       start \o plots.printed
                         \o (IF plots.outcome = "raised" THEN <<>> ELSE done),
                       plots.wrote, plots.figs,
                       [i \in DOMAIN data_files |->
                          [file |-> data_files[i], found |-> ~loads[i].is_none]],
                       EmptyTable)

----------------------------------------------------------------------------
(* create_combined_visualization *)

\* Inside the loop over data_files: a file with neither a networkProfile nor a
\* networkMean column gets a networkProfile column holding its file name
\* without extension.
tag_profile(data, file) ==
    IF "networkProfile" \notin data.cols /\ "networkMean" \notin data.cols
    THEN [cols |-> data.cols \cup {"networkProfile"},
          rows |-> [i \in DOMAIN data.rows |->
                      [data.rows[i] EXCEPT !.networkProfile = file.stem]]]
    ELSE data

\* pd.concat([all_data, data]) over the files that load, from an empty frame.
RECURSIVE concat_files(_)
concat_files(files) ==
    IF files = <<>> THEN EmptyTable
    ELSE LET front == concat_files(SubSeq(files, 1, Len(files) - 1))
             file == files[Len(files)]
             load == load_data(file)
             data == tag_profile(load.data, file)
         IN IF load.is_none THEN front
            ELSE [cols |-> front.cols \cup data.cols, rows |-> front.rows \o data.rows]

\* The part of a grid chart after all_data is there: filter, key lists,
\* subplot grid, series.  all_data['networkProfile'] raises KeyError without
\* that column; a grid of zero rows raises ValueError.
grid_chart(fn, all_data0, file) ==
    LET all_data == filter_failed(all_data0)
        network_profiles == sorted_str(unique(Column(all_data.rows, "networkProfile")))
        byzantine_percentages ==
            sorted(unique(Column(all_data.rows, "byzantinePercentage")))
        series == series_per_profile(all_data.rows, network_profiles, byzantine_percentages)
        no_data == {<<network_profiles[i], byzantine_percentages[j]>> :
                       i \in DOMAIN network_profiles, j \in DOMAIN byzantine_percentages}
                   \ {<<s.profile, s.percentage>> : s \in Range(series)}
        fig == Figure(fn, all_data.rows, network_profiles, byzantine_percentages, series,
                      NoPivot,
                      IF fn = "create_comprehensive_visualization" THEN no_data ELSE {})
    IN IF "networkProfile" \notin all_data.cols
       THEN [outcome |-> "raised", error |-> "KeyError", wrote |-> {}, figs |-> <<>>]
       ELSE IF Len(network_profiles) = 0
       THEN [outcome |-> "raised", error |-> "ValueError", wrote |-> {}, figs |-> <<>>]
       ELSE [outcome |-> "completed", error |-> "", wrote |-> {file}, figs |-> file :> fig]

create_combined_visualization ==
    LET start == <<"Generating combined network profile visualization...">>
        done == <<"Combined network profile visualization generated">>
        load == load_data(AllExperiments)
        first == <<[file |-> AllExperiments, found |-> ~load.is_none]>>
        all_data == IF load.is_none THEN concat_files(data_files) ELSE load.data
        loads == IF load.is_none
                 THEN first \o [i \in DOMAIN data_files |->
                                  [file |-> data_files[i],
                                   found |-> ~load_data(data_files[i]).is_none]]
                 ELSE first
        chart == grid_chart("create_combined_visualization", all_data,
                            "combined_network_profiles.png")
    IN IF no_experiment_data(load)
       THEN Outcome("returned", "", start \o load.printed \o <<NoData>>, {}, <<>>,
                    first, EmptyTable)
       ELSE Outcome(chart.outcome, chart.error,
                    start \o load.printed \o (IF chart.outcome = "raised" THEN <<>> ELSE done),
                    chart.wrote, chart.figs, loads, all_data)

----------------------------------------------------------------------------
(* The charts drawn from all-experiments.csv only *)

\* The head shared by the four: load the aggregate file, return early without
\* it; chart is what the body of the function draws from the loaded table.
from_all_experiments(start, chart) ==
    LET load == load_data(AllExperiments)
        loads == <<[file |-> AllExperiments, found |-> ~load.is_none]>>
    IN IF load.is_none
       THEN Outcome("returned", "", <<start>> \o load.printed \o <<NoData>>, {}, <<>>,
                    loads, EmptyTable)
       ELSE Outcome(chart.outcome, chart.error,
                    <<start>> \o (IF chart.outcome = "raised" THEN <<>> ELSE <<chart.done>>),
                    chart.wrote, chart.figs, loads, load.data)

\* time_per_node = meanTime / nodeNum, as a fraction in lowest terms.
time_per_node(r) ==
    LET g == Gcd(r.meanTime, r.nodeNum)
    IN [num |-> r.meanTime \div g, den |-> r.nodeNum \div g]

\* The series of the first profile in sorted order.  network_profiles[0]
\* raises IndexError when no row is left; the reference lines read
\* profile_data['time_per_node'], a column that was only ever added to the
\* per-percentage copies, which raises KeyError.
normalized_scaling_chart(all_data0) ==
    LET all_data == filter_failed(all_data0)
        byzantine_percentages ==
            sorted(unique(Column(all_data.rows, "byzantinePercentage")))
        network_profiles == sorted_str(unique(Column(all_data.rows, "networkProfile")))
        fastest_profile == network_profiles[1]
        profile_data == SelectSeq(all_data.rows, LAMBDA r : r.networkProfile = fastest_profile)
        lines == series_per_percentage(fastest_profile, profile_data, byzantine_percentages)
        series == [k \in DOMAIN lines |->
                     [profile |-> lines[k].profile, percentage |-> lines[k].percentage,
                      points |-> lines[k].points,
                      time_per_node |-> [i \in DOMAIN lines[k].points |->
                                           time_per_node(lines[k].points[i])]]]
        file == "normalized_scaling.png"
        empty == Figure("create_normalized_scaling_plot", all_data.rows, network_profiles,
                        byzantine_percentages, <<>>, NoPivot, {})
    IN IF Len(network_profiles) = 0
       THEN [outcome |-> "raised", error |-> "IndexError", wrote |-> {},
             figs |-> file :> empty, done |-> ""]
       ELSE IF "time_per_node" \notin all_data.cols
       THEN [outcome |-> "raised", error |-> "KeyError", wrote |-> {},
             figs |-> file :> [empty EXCEPT !.series = series], done |-> ""]
       ELSE [outcome |-> "completed", error |-> "", wrote |-> {file},
             figs |-> file :> [empty EXCEPT !.series = series],
             done |-> "Normalized scaling plot generated"]

create_normalized_scaling_plot ==
    from_all_experiments("Generating normalized scaling plot...",
                         normalized_scaling_chart(load_data(AllExperiments).data))

\* One scatter series (and its connecting line) per profile and percentage
\* with rows.  An empty key list draws nothing and still saves.
scatter_3d_chart(all_data0) ==
    LET all_data == filter_failed(all_data0)
        network_profiles == sorted_str(unique(Column(all_data.rows, "networkProfile")))
        byzantine_percentages ==
            sorted(unique(Column(all_data.rows, "byzantinePercentage")))
        file == "3d_visualization.png"
    IN [outcome |-> "completed", error |-> "", wrote |-> {file},
        figs |-> file :> Figure("create_3d_visualization", all_data.rows, network_profiles,
                                byzantine_percentages,
                                series_per_profile(all_data.rows, network_profiles,
                                                   byzantine_percentages),
                                NoPivot, {}),
        done |-> "3D visualization generated"]

create_3d_visualization ==
    from_all_experiments("Generating 3D visualization...",
                         scatter_3d_chart(load_data(AllExperiments).data))

\* A missing number.
NaN == [num |-> 0, den |-> 0]

\* aggfunc='sum' in place of 'mean'.
mean_as_sum(values) ==
    IF values = <<>> THEN NaN ELSE [num |-> SumSeq(values), den |-> 1]

\* aggfunc='mean': the sum over the count, as a fraction in lowest terms.
mean(values) ==
    IF values = <<>> THEN NaN
    ELSE LET g == Gcd(SumSeq(values), Len(values))
         IN [num |-> SumSeq(values) \div g, den |-> Len(values) \div g]

\* profile_data.pivot_table(index='nodeNum', columns='byzantinePercentage',
\*                          values='meanTime', aggfunc='mean')
pivot_table(profile_data) ==
    LET index == sorted(unique(Column(profile_data, "nodeNum")))
        columns == sorted(unique(Column(profile_data, "byzantinePercentage")))
        cells == Range(index) \X Range(columns)
        groups == [c \in cells |->
                     SelectSeq(profile_data,
                               LAMBDA r : r.nodeNum = c[1] /\ r.byzantinePercentage = c[2])]
    IN [index |-> index, columns |-> columns, groups |-> groups,
        values |-> [c \in cells |-> mean(Column(groups[c], "meanTime"))]]

\* One heatmap per profile with rows, each saved under its own name.
heatmaps_chart(all_data0) ==
    LET all_data == filter_failed(all_data0)
        network_profiles == sorted_str(unique(Column(all_data.rows, "networkProfile")))
        file(profile) == profile \o "_heatmap.png"
        profile_data(profile) ==
            SelectSeq(all_data.rows, LAMBDA r : r.networkProfile = profile)
    IN [outcome |-> "completed", error |-> "",
        wrote |-> {file(profile) : profile \in Range(network_profiles)},
        figs |-> [f \in {file(profile) : profile \in Range(network_profiles)} |->
                    LET profile == CHOOSE q \in Range(network_profiles) : file(q) = f
                    IN Figure("create_heatmaps", profile_data(profile), <<profile>>, <<>>,
                              <<>>, pivot_table(profile_data(profile)), {})],
        done |-> "Heatmaps generated"]

create_heatmaps ==
    from_all_experiments("Generating heatmaps...",
                         heatmaps_chart(load_data(AllExperiments).data))

\* One subplot per profile and percentage: a series, or the text 'No Data'.
comprehensive_chart(all_data0) ==
    grid_chart("create_comprehensive_visualization", all_data0,
               "comprehensive_visualization.png")
        @@ [done |-> "Comprehensive visualization generated"]

create_comprehensive_visualization ==
    from_all_experiments("Generating comprehensive visualization...",
                         comprehensive_chart(load_data(AllExperiments).data))

----------------------------------------------------------------------------
(* main() and the calls of the chart functions *)

\* The chart functions in the order main() calls them.
MainOrder == <<"create_byzantine_impact_plots", "create_combined_visualization",
               "create_normalized_scaling_plot", "create_3d_visualization",
               "create_heatmaps", "create_comprehensive_visualization">>

chart_function(fn) ==
    CASE fn = "create_byzantine_impact_plots" -> create_byzantine_impact_plots
      [] fn = "create_combined_visualization" -> create_combined_visualization
      [] fn = "create_normalized_scaling_plot" -> create_normalized_scaling_plot
      [] fn = "create_3d_visualization" -> create_3d_visualization
      [] fn = "create_heatmaps" -> create_heatmaps
      [] fn = "create_comprehensive_visualization" -> create_comprehensive_visualization

\* What a whole run of main() leaves: the files and figures of the calls in
\* order, up to the first that raises.
RECURSIVE call_in_order(_)
call_in_order(fns) ==
    IF fns = <<>> THEN [wrote |-> {}, figs |-> <<>>, raised |-> FALSE]
    ELSE LET first == chart_function(fns[1])
             rest == call_in_order(Tail(fns))
         IN IF first.outcome = "raised"
            THEN [wrote |-> first.wrote, figs |-> first.figs, raised |-> TRUE]
            ELSE [wrote |-> first.wrote \cup rest.wrote, figs |-> rest.figs @@ first.figs,
                  raised |-> rest.raised]

main == call_in_order(MainOrder)

Called == DOMAIN calls

\* The function main() calls next: the earlier ones have returned.
NextInMain(fn) ==
    \E i \in DOMAIN MainOrder :
        /\ MainOrder[i] = fn
        /\ Called = {MainOrder[j] : j \in 1..(i - 1)}

\* One call of a chart function: its files appear in the output directory, and
\* an exception it raises ends the process.
Call(fn, result) ==
    /\ ~raised
    /\ ~finished
    /\ fn \notin Called
    /\ calls' = (fn :> result) @@ calls
    /\ output' = output \cup result.wrote
    /\ figures' = result.figs @@ figures
    /\ raised' = (result.outcome = "raised")
    /\ UNCHANGED <<listing, contents, finished, run, previous, bars, errorbars, group>>

main_byzantine_impact_plots ==
    /\ NextInMain("create_byzantine_impact_plots")
    /\ Call("create_byzantine_impact_plots", create_byzantine_impact_plots)

main_combined_visualization ==
    /\ NextInMain("create_combined_visualization")
    /\ Call("create_combined_visualization", create_combined_visualization)

main_normalized_scaling_plot ==
    /\ NextInMain("create_normalized_scaling_plot")
    /\ Call("create_normalized_scaling_plot", create_normalized_scaling_plot)

main_3d_visualization ==
    /\ NextInMain("create_3d_visualization")
    /\ Call("create_3d_visualization", create_3d_visualization)

main_heatmaps ==
    /\ NextInMain("create_heatmaps")
    /\ Call("create_heatmaps", create_heatmaps)

main_comprehensive_visualization ==
    /\ NextInMain("create_comprehensive_visualization")
    /\ Call("create_comprehensive_visualization", create_comprehensive_visualization)

\* print("\nAll visualizations complete! Output saved to:", OUTPUT_DIR)
main_complete ==
    /\ ~raised
    /\ ~finished
    /\ Called = Range(MainOrder)
    /\ finished' = TRUE
    /\ UNCHANGED <<listing, contents, output, figures, calls, raised, run, previous,
                   bars, errorbars, group>>

\* The script is started a second time on the same results directory; the
\* output directory keeps the files of the first run.
run_again ==
    /\ run = 1
    /\ finished \/ raised
    /\ run' = run + 1
    /\ previous' = figures
    /\ figures' = <<>>
    /\ calls' = <<>>
    /\ raised' = FALSE
    /\ finished' = FALSE
    /\ UNCHANGED <<listing, contents, output, bars, errorbars, group>>

Next ==
    \/ main_byzantine_impact_plots
    \/ main_combined_visualization
    \/ main_normalized_scaling_plot
    \/ main_3d_visualization
    \/ main_heatmaps
    \/ main_comprehensive_visualization
    \/ main_complete
    \/ run_again

\* One run of main() after the other.
Spec == Init /\ [][Next]_vars

\* The chart functions called one by one in any order in one process.
call_byzantine_impact_plots ==
    Call("create_byzantine_impact_plots", create_byzantine_impact_plots)

call_combined_visualization ==
    Call("create_combined_visualization", create_combined_visualization)

call_normalized_scaling_plot ==
    Call("create_normalized_scaling_plot", create_normalized_scaling_plot)

call_3d_visualization ==
    Call("create_3d_visualization", create_3d_visualization)

call_heatmaps ==
    Call("create_heatmaps", create_heatmaps)

call_comprehensive_visualization ==
    Call("create_comprehensive_visualization", create_comprehensive_visualization)

NextCalls ==
    \/ call_byzantine_impact_plots
    \/ call_combined_visualization
    \/ call_normalized_scaling_plot
    \/ call_3d_visualization
    \/ call_heatmaps
    \/ call_comprehensive_visualization

SpecCalls == Init /\ [][NextCalls]_vars

----------------------------------------------------------------------------
(* src/data/index.py: the grouped bar chart of the literal arrays.          *)
(* Times are in units of 10^-5 s, positions in hundredths of an axis unit.  *)

protocols == <<"ADD+v1", "ADD+v2", "ADD+v3", "Algorand", "Async BA",
               "PBFT", "HotStuff+NSL", "LibraBFT", "SSB-Babble">>

ssb_babble_means == <<334191, 341389, 357663, 374282, 400225, 442341>>

ssb_babble_stds == <<11500, 13900, 17800, 23200, 24600, 40000>>

f_values == <<0, 1, 2, 3, 4, 5>>

data == <<
    <<700000, 710000, 720000, 730000, 740000, 750000>>,
    <<700000, 710000, 720000, 730000, 740000, 750000>>,
    <<1350000, 1370000, 1380000, 1400000, 1410000, 1420000>>,
    <<450000, 460000, 470000, 480000, 500000, 580000>>,
    <<1300000, 1320000, 1340000, 1360000, 1380000, 1220000>>,
    <<330000, 350000, 370000, 390000, 430000, 500000>>,
    <<250000, 300000, 350000, 400000, 500000, 2500000>>,
    <<220000, 250000, 350000, 370000, 600000, 630000>>,
    ssb_babble_means >>

std_data == <<
    <<30000, 30000, 40000, 40000, 40000, 40000>>,
    <<100000, 100000, 100000, 100000, 80000, 80000>>,
    <<150000, 150000, 200000, 200000, 200000, 200000>>,
    <<20000, 20000, 20000, 20000, 30000, 150000>>,
    <<400000, 400000, 350000, 350000, 300000, 300000>>,
    <<10000, 10000, 20000, 30000, 50000, 80000>>,
    <<10000, 10000, 20000, 30000, 70000, 100000>>,
    <<10000, 10000, 20000, 20000, 30000, 30000>>,
    ssb_babble_stds >>

\* x = np.arange(len(protocols)); the bars of group i stand at x + i*width - 0.35
bar_position(p, i) == 100 * (p - 1) + 13 * i - 35

\* data[:, i]
bar_heights(i) == [p \in DOMAIN data |-> data[p][i + 1]]

\* std_data[:, 0] for every group.
bar_yerr_first_column(i) == [p \in DOMAIN std_data |-> std_data[p][1]]

\* std_data[:, i]
bar_yerr(i) == [p \in DOMAIN std_data |-> std_data[p][i + 1]]

InGroup(S, i) == {b \in S : b.i = i}

\* ax.bar(...) of the group in hand adds its next rectangle.
draw_rectangle ==
    /\ group < Len(f_values)
    /\ Cardinality(InGroup(bars, group)) < Len(bar_heights(group))
    /\ LET p == Cardinality(InGroup(bars, group)) + 1
       IN bars' = bars \cup {[i |-> group, f |-> f_values[group + 1], p |-> p,
                              protocol |-> protocols[p], x |-> bar_position(p, group),
                              height |-> bar_heights(group)[p]]}
    /\ UNCHANGED <<listing, contents, output, figures, calls, raised, finished, run,
                   previous, errorbars, group>>

\* Once the rectangles of the group are there, ax.bar draws its error bars (yerr=).
draw_errorbar ==
    /\ group < Len(f_values)
    /\ Cardinality(InGroup(bars, group)) = Len(bar_heights(group))
    /\ Cardinality(InGroup(errorbars, group)) < Len(bar_yerr(group))
    /\ LET p == Cardinality(InGroup(errorbars, group)) + 1
       IN errorbars' = errorbars \cup {[i |-> group, f |-> f_values[group + 1], p |-> p,
                                        protocol |-> protocols[p],
                                        x |-> bar_position(p, group),
                                        yerr |-> bar_yerr(group)[p]]}
    /\ UNCHANGED <<listing, contents, output, figures, calls, raised, finished, run,
                   previous, bars, group>>

\* for i, f in enumerate(f_values): the next group.
next_group ==
    /\ group < Len(f_values)
    /\ Cardinality(InGroup(bars, group)) = Len(bar_heights(group))
    /\ Cardinality(InGroup(errorbars, group)) = Len(bar_yerr(group))
    /\ group' = group + 1
    /\ UNCHANGED <<listing, contents, output, figures, calls, raised, finished, run,
                   previous, bars, errorbars>>

\* index.py reads no file.
InitFig ==
    /\ listing = <<>>
    /\ contents = <<>>
    /\ NothingDone

NextFig ==
    \/ draw_rectangle
    \/ draw_errorbar
    \/ next_group

SpecFig == InitFig /\ [][NextFig]_vars

----------------------------------------------------------------------------
(* Claims *)

Failed(r) == r.failure = "True"

\* Every row that went into a figure: the rows its key lists were built from,
\* the points of its series, the rows of its pivot cells.
FigureRows(g) ==
    Range(g.rows)
      \cup UNION {Range(s.points) : s \in Range(g.series)}
      \cup UNION {Range(g.pivot.groups[c]) : c \in DOMAIN g.pivot.groups}

\* C1: in every chart function no row whose failure flag is true contributes
\* to an aggregated view: neither the rows the profile list and the
\* Byzantine-percentage list are built from, nor any plotted series, nor any
\* pivot cell holds a failed row, and every listed profile, percentage and
\* pivot label comes from a row that did not fail.
C1_NoFailedRowInAnyView ==
    \A file \in DOMAIN figures :
        LET g == figures[file]
        IN /\ \A r \in FigureRows(g) : ~Failed(r)
           /\ \A profile \in Range(g.network_profiles) :
                 \E r \in Range(g.rows) : ~Failed(r) /\ r.networkProfile = profile
           /\ \A percentage \in Range(g.byzantine_percentages) :
                 \E r \in Range(g.rows) : ~Failed(r) /\ r.byzantinePercentage = percentage
           /\ \A c \in DOMAIN g.pivot.values :
                 g.pivot.values[c] # NaN =>
                    \E r \in Range(g.rows) :
                        ~Failed(r) /\ r.nodeNum = c[1] /\ r.byzantinePercentage = c[2]

\* All six chart functions have run on an aggregate file that holds a failed
\* row beside a row that did not fail, and each has drawn a figure from it.
C1_Witness ==
    /\ Called = Range(MainOrder)
    /\ \A fn \in Called :
          /\ \E r \in Range(calls[fn].all_data.rows) : Failed(r)
          /\ \E file \in DOMAIN calls[fn].figs : calls[fn].figs[file].rows # <<>>

\* C2: in a run of main() no chart-generation step aborts the run: each ends by
\* writing its image file(s) or by being skipped with a printed message.
\* Stated for the step the claim singles out: once main() has called
\* create_normalized_scaling_plot on a directory whose all-experiments.csv holds
\* a row that did not fail, no exception has been raised and every step called
\* so far has written its file(s) or has printed that it found no data.
C2_NoStepAbortsTheRun ==
    ("create_normalized_scaling_plot" \in Called
        /\ os_path_exists(AllExperiments)
        /\ \E r \in Range(contents[AllExperiments].rows) : ~Failed(r))
    => /\ ~raised
       /\ \A fn \in Called :
             \/ calls[fn].outcome = "completed" /\ calls[fn].wrote # {}
             \/ calls[fn].outcome = "returned" /\ NoData \in Range(calls[fn].printed)

\* The charts that draw one series per aggregation key.
KeyedCharts == {"create_byzantine_impact_plots", "create_combined_visualization",
                "create_3d_visualization", "create_comprehensive_visualization"}

SeriesOf(g, percentage) ==
    {k \in DOMAIN g.series : g.series[k].percentage = percentage}

\* The figure's rows hold the key: the percentage on a plot of one profile
\* (whose series carry no profile), the profile and the percentage elsewhere.
HasKey(g, profile, percentage) ==
    \E r \in Range(g.rows) :
        /\ r.byzantinePercentage = percentage
        /\ IF g.fn = "plot_byzantine_impact" THEN profile = NoColumn
           ELSE r.networkProfile = profile

\* C3: in a chart that draws one series per aggregation key, a key with a row
\* that did not fail has exactly one series, a key without rows has none and
\* raises no error.  Stated for the figures drawn from a table that has the key
\* columns: the call that draws them does not raise, and on each figure the
\* series of a profile and percentage number one when the figure's rows hold
\* that key and none otherwise.
C3_OneSeriesPerKeyNoError ==
    \A fn \in Called \cap KeyedCharts :
        (fn = "create_byzantine_impact_plots" \/ "networkProfile" \in calls[fn].all_data.cols)
        => /\ calls[fn].outcome # "raised"
           /\ \A file \in DOMAIN calls[fn].figs :
                 LET g == calls[fn].figs[file]
                 IN \A profile \in Profiles \cup {NoColumn},
                       percentage \in ByzantinePercentages :
                       Cardinality({k \in SeriesOf(g, percentage) :
                                       g.series[k].profile = profile})
                         = IF HasKey(g, profile, percentage) THEN 1 ELSE 0

\* The rows of the per-profile files as the combined table is to hold them:
\* file after file in listing order, each row of a file without a
\* networkProfile column tagged with the file name without extension.
RECURSIVE TaggedRows(_)
TaggedRows(files) ==
    IF files = <<>> THEN <<>>
    ELSE LET file == files[1]
             table == contents[file]
         IN [i \in DOMAIN table.rows |->
               IF "networkProfile" \in table.cols THEN table.rows[i]
               ELSE [table.rows[i] EXCEPT !.networkProfile = file.stem]]
            \o TaggedRows(Tail(files))

\* C4: when all-experiments.csv is absent and create_combined_visualization
\* combines the per-profile files, the combined table has a networkProfile
\* column and every row of a file without that column carries the file's name
\* without extension as its profile, whether or not the file has a networkMean
\* column.
C4_CombinedRowsTagged ==
    ("create_combined_visualization" \in Called
        /\ ~os_path_exists(AllExperiments) /\ data_files # <<>>)
    => LET all_data == calls["create_combined_visualization"].all_data
       IN /\ "networkProfile" \in all_data.cols
          /\ all_data.rows = TaggedRows(data_files)
          /\ \A r \in Range(all_data.rows) : r.networkProfile \in Profiles

\* C5: on a heatmap the pivot value at (nodeNum = X, byzantinePercentage = Y)
\* is the mean of meanTime over exactly the rows of the heatmap's table that
\* match (X, Y): the rows of the figure's profile in all-experiments.csv that
\* did not fail; a cell no row matches has no value.
C5_PivotIsMeanOfMatchingRows ==
    "create_heatmaps" \in Called =>
        \A file \in DOMAIN calls["create_heatmaps"].figs :
            LET g == calls["create_heatmaps"].figs[file]
                table == SelectSeq(contents[AllExperiments].rows,
                                   LAMBDA r : /\ ~Failed(r)
                                              /\ r.networkProfile = g.network_profiles[1])
            IN \A X \in NodeNums, Y \in ByzantinePercentages :
                  LET matching == SelectSeq(table, LAMBDA r : /\ r.nodeNum = X
                                                              /\ r.byzantinePercentage = Y)
                      total == SumSeq(Column(matching, "meanTime"))
                      cell == <<X, Y>>
                  IN IF matching = <<>>
                     THEN cell \in DOMAIN g.pivot.values => g.pivot.values[cell] = NaN
                     ELSE /\ cell \in DOMAIN g.pivot.values
                          /\ g.pivot.values[cell].den > 0
                          /\ g.pivot.values[cell].num * Len(matching)
                               = total * g.pivot.values[cell].den

\* A heatmap was saved that has a cell averaged over two rows.
C5_Witness ==
    /\ "create_heatmaps" \in Called
    /\ \E file \in DOMAIN calls["create_heatmaps"].figs :
          LET pivot == calls["create_heatmaps"].figs[file].pivot
          IN /\ \E c \in DOMAIN pivot.groups : Len(pivot.groups[c]) > 1
             /\ file \in output

AggregateOnly == {"create_normalized_scaling_plot", "create_3d_visualization",
                  "create_heatmaps", "create_comprehensive_visualization"}

Warning(f) == "Warning: File not found: " \o RESULTS_DIR \o "/" \o FullName(f)

\* C6: load_data never raises for a missing file: it returns None, with a
\* warning, exactly when the file is not in the results directory, and the
\* table otherwise; a caller that gets None either falls back to the
\* per-profile files (create_combined_visualization, when there are any) or
\* returns early having written no output file.
C6_MissingFileIsNoneAndCallerGivesUp ==
    \A fn \in Called :
        LET c == calls[fn]
        IN \A i \in DOMAIN c.loads :
              /\ c.loads[i].found = os_path_exists(c.loads[i].file)
              /\ ~c.loads[i].found =>
                    /\ Warning(c.loads[i].file) \in Range(c.printed)
                    /\ \/ /\ c.outcome = "returned"
                          /\ c.wrote = {}
                          /\ c.figs = <<>>
                          /\ NoData \in Range(c.printed)
                       \/ /\ fn = "create_combined_visualization"
                          /\ data_files # <<>>
                          /\ c.loads = <<[file |-> AllExperiments, found |-> FALSE]>>
                                         \o [k \in DOMAIN data_files |->
                                               [file |-> data_files[k], found |-> TRUE]]
                          /\ Len(c.all_data.rows)
                               = SumSeq([k \in DOMAIN data_files |->
                                           Len(contents[data_files[k]].rows)])

\* Without all-experiments.csv an aggregate-only chart has returned early and
\* create_combined_visualization has fallen back to the per-profile files and
\* saved its chart.
C6_Witness ==
    /\ ~os_path_exists(AllExperiments)
    /\ \E fn \in AggregateOnly \cap Called : calls[fn].outcome = "returned"
    /\ "create_combined_visualization" \in Called
    /\ calls["create_combined_visualization"].outcome = "completed"
    /\ "combined_network_profiles.png" \in output

\* The results directory holds no CSV file at all.
NoCsvFile == \A i \in DOMAIN listing : listing[i].ext # ".csv"

\* The functions whose call this step is.
JustCalled == DOMAIN calls' \ DOMAIN calls

\* C7: when all-experiments.csv is absent and the results directory holds no
\* other CSV file, a call of create_combined_visualization or of
\* create_byzantine_impact_plots prints 'No experiment data found!', returns
\* early and leaves the set of files of the output directory as it was.
C7_NoDataReturnsEarly ==
    [][ (NoCsvFile /\ JustCalled \cap {"create_combined_visualization",
                                       "create_byzantine_impact_plots"} # {})
        => /\ output' = output
           /\ figures' = figures
           /\ ~raised'
           /\ \A fn \in JustCalled :
                 /\ calls'[fn].outcome = "returned"
                 /\ NoData \in Range(calls'[fn].printed) ]_vars

\* Both functions have been called on an empty results directory.
C7_Witness ==
    /\ NoCsvFile
    /\ {"create_combined_visualization", "create_byzantine_impact_plots"} \subseteq Called

\* C8: index.py draws exactly 9 x 6 = 54 bars, one per protocol and fault
\* count f in 0..5; the bar of (p, f) has height data[p][f] and error-bar
\* height std_data[p][f], and no error-bar height is negative.
C8_FiftyFourBars ==
    /\ \A b \in bars :
          /\ b.protocol = protocols[b.p]
          /\ b.height = data[b.p][b.f + 1]
    /\ \A e \in errorbars :
          /\ e.protocol = protocols[e.p]
          /\ e.yerr = std_data[e.p][e.f + 1]
          /\ e.yerr >= 0
    /\ group = Len(f_values) =>
          /\ Cardinality(bars) = 54
          /\ Cardinality(errorbars) = 54
          /\ Len(protocols) = 9
          /\ \A p \in DOMAIN protocols, f \in 0..5 :
                /\ Cardinality({b \in bars : b.protocol = protocols[p] /\ b.f = f}) = 1
                /\ Cardinality({e \in errorbars : e.protocol = protocols[p] /\ e.f = f}) = 1

\* The bar loop has ended.
C8_Witness == group = Len(f_values) /\ bars # {} /\ errorbars # {}

\* C9: the six chart-generation steps do not depend on one another: once they
\* have run in whatever order, the output directory holds the files, and each
\* saved chart the series, that a run in the order of main() leaves.
C9_AnyOrderSameOutput ==
    (raised \/ Called = Range(MainOrder))
    => /\ output = main.wrote
       /\ \A file \in output : figures[file] = main.figs[file]

\* The (nodeNum, meanTime, stdTime) points of the series of a figure, key by key.
SeriesPoints(g) ==
    [k \in DOMAIN g.series |->
       [profile |-> g.series[k].profile, percentage |-> g.series[k].percentage,
        points |-> [i \in DOMAIN g.series[k].points |->
                      <<g.series[k].points[i].nodeNum, g.series[k].points[i].meanTime,
                        g.series[k].points[i].stdTime>>]]]

SeriesCharts == {"create_byzantine_impact_plots", "create_combined_visualization",
                 "create_normalized_scaling_plot", "create_3d_visualization",
                 "create_comprehensive_visualization"}

\* The rows, in file order, of the table a figure of a series chart is drawn
\* from, before the failure filter: the per-profile file or the rows of the
\* profile in the aggregate file for a Byzantine impact plot, the table the
\* function loaded or combined for the others.
SourceRows(fn, file) ==
    IF fn = "create_byzantine_impact_plots"
    THEN LET profile == CHOOSE p \in Profiles : p \o "_byzantine_impact.png" = file
         IN IF data_files = <<>>
            THEN SelectSeq(contents[AllExperiments].rows,
                           LAMBDA r : r.networkProfile = profile)
            ELSE contents[[stem |-> profile, ext |-> ".csv"]].rows
    ELSE calls[fn].all_data.rows

\* The rows of a table that belong to the group of a series and did not fail.
GroupOf(rows, s) ==
    {r \in Range(rows) : /\ ~Failed(r)
                         /\ r.byzantinePercentage = s.percentage
                         /\ s.profile # NoColumn => r.networkProfile = s.profile}

Ascending(points) ==
    \A i, j \in DOMAIN points : i < j => points[i].nodeNum <= points[j].nodeNum

\* C11: in every line/scatter chart the points of each series are emitted in
\* ascending order of nodeNum, whatever the row order of the input table, and
\* the series holds exactly the rows of its group (profile and Byzantine
\* percentage) that did not fail, each once.
C11_SeriesSortedAndExact ==
    \A fn \in Called \cap SeriesCharts :
        \A file \in DOMAIN calls[fn].figs :
            LET g == calls[fn].figs[file]
            IN \A k \in DOMAIN g.series :
                  LET s == g.series[k]
                  IN /\ Ascending(s.points)
                     /\ Range(s.points) = GroupOf(SourceRows(fn, file), s)
                     /\ Len(s.points) = Cardinality(Range(s.points))

\* A Byzantine impact plot and a 3D scatter chart were saved, each with a
\* series of two points whose rows stand in descending nodeNum order in the
\* file.
C11_Witness ==
    \A fn \in {"create_byzantine_impact_plots", "create_3d_visualization"} :
        /\ fn \in Called
        /\ \E file \in DOMAIN calls[fn].figs :
              /\ file \in output
              /\ \E k \in DOMAIN calls[fn].figs[file].series :
                    LET points == calls[fn].figs[file].series[k].points
                    IN /\ Len(points) = 2
                       /\ points[1].nodeNum < points[2].nodeNum
                       /\ ~Ascending(SourceRows(fn, file))


\* The files a call read: those load_data found and parsed.
Reads(c) == {c.loads[i].file : i \in {j \in DOMAIN c.loads : c.loads[j].found}}

\* The CSV files of the results directory other than all-experiments.csv.
IndividualCsvFiles == {f \in Range(listing) : f.ext = ".csv" /\ f # AllExperiments}

\* C12: source selection differs by chart and is exclusive.
\* create_byzantine_impact_plots reads all-experiments.csv, and then saves one
\* plot per networkProfile value, only when the results directory holds no
\* other CSV file; otherwise it saves one plot per individual CSV file and
\* does not read the aggregate.  create_combined_visualization reads
\* individual CSV files only when all-experiments.csv is absent.  The other
\* four chart functions read nothing but all-experiments.csv.
C12_SourceSelectionExclusive ==
    /\ "create_byzantine_impact_plots" \in Called =>
          LET c == calls["create_byzantine_impact_plots"]
          IN /\ AllExperiments \in Reads(c) =>
                   /\ IndividualCsvFiles = {}
                   /\ c.wrote = {p \o "_byzantine_impact.png" :
                                   p \in Range(Column(contents[AllExperiments].rows,
                                                      "networkProfile"))}
             /\ IndividualCsvFiles # {} =>
                   /\ AllExperiments \notin Reads(c)
                   /\ Reads(c) = IndividualCsvFiles
                   /\ c.wrote = {f.stem \o "_byzantine_impact.png" : f \in IndividualCsvFiles}
    /\ "create_combined_visualization" \in Called =>
          LET c == calls["create_combined_visualization"]
          IN Reads(c) \cap IndividualCsvFiles # {} =>
                /\ ~os_path_exists(AllExperiments)
                /\ AllExperiments \notin Reads(c)
    /\ \A fn \in Called \cap AggregateOnly : Reads(calls[fn]) \subseteq {AllExperiments}


\* The optional columns of the table a figure is drawn from.
SourceCols(fn, file) ==
    IF fn = "create_byzantine_impact_plots"
    THEN LET profile == CHOOSE p \in Profiles : p \o "_byzantine_impact.png" = file
         IN IF data_files = <<>> THEN contents[AllExperiments].cols
            ELSE contents[[stem |-> profile, ext |-> ".csv"]].cols
    ELSE calls[fn].all_data.cols

\* The rows of that table the figure is about: those of its profile on a
\* heatmap, all of them elsewhere.
SourceRowsOfFigure(fn, file) ==
    IF fn = "create_heatmaps"
    THEN SelectSeq(calls[fn].all_data.rows,
                   LAMBDA r : r.networkProfile = calls[fn].figs[file].network_profiles[1])
    ELSE SourceRows(fn, file)

\* C13: the failure filter treats a missing failure value as not failed.  The
\* rows a chart function goes on with are, in table order, the rows whose
\* failure value is false or missing when the table has a failure column, and
\* all the rows of the table when it has none.
C13_MissingFailureIsKept ==
    \A fn \in Called :
        \A file \in DOMAIN calls[fn].figs :
            calls[fn].figs[file].rows
              = SelectSeq(SourceRowsOfFigure(fn, file),
                          LAMBDA r : "failure" \in SourceCols(fn, file)
                                        => r.failure \in {"False", "NaN"})

\* create_byzantine_impact_plots, create_combined_visualization and
\* create_comprehensive_visualization each saved a figure of a table with a
\* failure column in which one row has no failure value and was kept and
\* another is flagged true and was dropped.
C13_Witness ==
    \A fn \in {"create_byzantine_impact_plots", "create_combined_visualization",
               "create_comprehensive_visualization"} :
        /\ fn \in Called
        /\ \E file \in DOMAIN calls[fn].figs :
              /\ file \in output
              /\ "failure" \in SourceCols(fn, file)
              /\ \E r \in Range(SourceRowsOfFigure(fn, file)) :
                    r.failure = "NaN" /\ r \in Range(calls[fn].figs[file].rows)
              /\ \E r \in Range(SourceRowsOfFigure(fn, file)) :
                    r.failure = "True" /\ r \notin Range(calls[fn].figs[file].rows)

====
